---- MODULE Spec2Model ----
(***************************************************************************)
(* Variable-to-file bindings of the Hurl runner                            *)
(* (packages/hurl/src/runner/bindings.rs): BoundVariables::process_bindings*)
(* loads variables from their bound files, BoundVariables::bind_variable   *)
(* writes a variable to its bound file through a temporary file and a      *)
(* rename.  Text (names, file contents, paths) is a sequence of            *)
(* one-character strings; the file system is a partial map from paths to   *)
(* directory entries, and regular files are inodes that open handles keep  *)
(* alive.                                                                  *)
(***************************************************************************)
EXTENDS Integers, Sequences, FiniteSets, TLC

VARIABLES
    fs,         \* directory entries: path -> [kind: "dir"] or [kind: "file", ino]
    inodes,     \* regular files: ino -> [content, mode]
    umask,      \* runner -> file-creation mask of the process
    mappings,   \* runner -> BoundVariables.mappings (name -> path)
    variables,  \* runner -> VariableSet (name -> Value)
    pc,         \* runner -> position of the runner
    params,     \* runner -> declarations process_bindings has not reached yet
    log,        \* runner -> what process_bindings did for each declaration so far
    call,       \* runner -> locals of the bind_variable call (and the state it started from)
    file,       \* runner -> the open handle `file` of bind_variable
    result,     \* runner -> what the last completed operation returned
    last_ok,    \* runner -> target and text of the last successful bind, while binds stay on that target
    ops,        \* runner -> operations started so far
    faults      \* failures and crashes the environment has injected so far

vars == <<fs, inodes, umask, mappings, variables, pc, params, log, call, file,
          result, last_ok, ops, faults>>

-----------------------------------------------------------------------------
(* Bounds *)

MaxOps == 3

MaxFaults == 1

Runners == {1}

-----------------------------------------------------------------------------
(* Option and Result values *)

None == [tag |-> "None"]

Some(x) == [tag |-> "Some", val |-> x]

Ok == [kind |-> "Ok"]

\* RunnerError::new(source_info, kind, false): the kind, its path, and the
\* boolean third argument.
FileReadAccess(path) == [kind |-> "FileReadAccess", path |-> path, flag |-> FALSE]

FileWriteAccess(path) == [kind |-> "FileWriteAccess", path |-> path, flag |-> FALSE]

TemplateError == [kind |-> "TemplateError"]

-----------------------------------------------------------------------------
(* Maps (HashMap, VariableSet, the directory tree) *)

insert(m, k, v) == [x \in DOMAIN m \cup {k} |-> IF x = k THEN v ELSE m[x]]

remove(m, k) == [x \in DOMAIN m \ {k} |-> m[x]]

\* Mutation of get: an unknown name is given a file named after it.
get_or_default(m, k) ==
    IF k \in DOMAIN m THEN [tag |-> "Some", val |-> m[k]]
    ELSE [tag |-> "Some", val |-> <<"/", "c", "/">> \o k]

get(m, k) == IF k \in DOMAIN m THEN Some(m[k]) ELSE None

EmptyMap == [x \in {} |-> 0]

-----------------------------------------------------------------------------
(* Values and their string form *)

String(s) == [kind |-> "String", s |-> s]

Integer(n) == [kind |-> "Integer", n |-> n]

DigitChar == <<"0", "1", "2", "3", "4", "5", "6", "7", "8", "9">>

RECURSIVE Digits(_)
Digits(n) == IF n < 10 THEN <<DigitChar[n + 1]>>
             ELSE Digits(n \div 10) \o <<DigitChar[(n % 10) + 1]>>

\* Display of a Value that is not matched as Value::String
to_string(value) ==
    IF value.kind = "String" THEN value.s
    ELSE IF value.n < 0 THEN <<"-">> \o Digits(0 - value.n)
    ELSE Digits(value.n)

\* Mutation of value_str_of: the writer ends the text with a line terminator.
value_str_terminated(value) ==
    (IF value.kind = "String" THEN value.s ELSE to_string(value)) \o <<"\n">>

\* let value_str = match value { Value::String(s) => s.clone(), other => other.to_string() }
value_str_of(value) ==
    IF value.kind = "String" THEN value.s ELSE to_string(value)

-----------------------------------------------------------------------------
(* Templates *)

Lit(s) == [elem |-> "lit", s |-> s]

Var(n) == [elem |-> "var", name |-> n]

\* template::eval_template: the elements rendered left to right; an undefined
\* variable is an error.
RECURSIVE eval_template(_, _)
eval_template(template, vs) ==
    IF template = <<>> THEN [ok |-> TRUE, s |-> <<>>]
    ELSE LET e == Head(template)
             rest == eval_template(Tail(template), vs)
         IN IF e.elem = "lit"
            THEN IF rest.ok THEN [ok |-> TRUE, s |-> e.s \o rest.s] ELSE rest
            ELSE IF e.name \notin DOMAIN vs THEN [ok |-> FALSE, s |-> <<>>]
            ELSE IF rest.ok THEN [ok |-> TRUE, s |-> to_string(vs[e.name]) \o rest.s]
            ELSE rest

-----------------------------------------------------------------------------
(* Paths *)

Root == <<"/">>

ContextRoot == <<"/", "c">>

\* ContextDir::resolved_path: a relative file name is joined to the context
\* directory, an absolute one is kept.
resolved_path(filename) ==
    IF filename # <<>> /\ Head(filename) = "/" THEN filename
    ELSE ContextRoot \o <<"/">> \o filename

LastSlash(p) ==
    LET S == {i \in 1..Len(p) : p[i] = "/"}
    IN IF S = {} THEN 0 ELSE CHOOSE i \in S : \A j \in S : j <= i

\* Path::parent
parent(p) ==
    IF p = <<>> \/ p = Root THEN None
    ELSE LET i == LastSlash(p)
         IN IF i = 0 THEN Some(<<>>)
            ELSE IF i = 1 THEN Some(Root)
            ELSE Some(SubSeq(p, 1, i - 1))

\* Mutation of temp_path_of: the value is written straight to the bound file.
temp_path_in_place(file_path) == file_path

\* format!("{}.tmp", file_path)
temp_path_of(file_path) == file_path \o <<".", "t", "m", "p">>

-----------------------------------------------------------------------------
(* The file system *)

DirNode == [kind |-> "dir"]

FileNode(i) == [kind |-> "file", ino |-> i]

\* Path::exists
exists(f, p) == p \in DOMAIN f

is_dir(f, p) == p \in DOMAIN f /\ f[p].kind = "dir"

is_file(f, p) == p \in DOMAIN f /\ f[p].kind = "file"

\* What a reader of the paths sees: each regular file by content and mode.
View(f, ino) ==
    [p \in DOMAIN f |->
        IF f[p].kind = "dir" THEN DirNode
        ELSE [kind |-> "file", content |-> ino[f[p].ino].content,
              mode |-> ino[f[p].ino].mode]]

Closed == [open |-> FALSE]

Handle(i, pos) == [open |-> TRUE, ino |-> i, pos |-> pos]

\* An inode lives while a path or an open handle refers to it.
Live(f, handles) ==
    {f[p].ino : p \in {q \in DOMAIN f : f[q].kind = "file"}}
        \cup {handles[r].ino : r \in {q \in DOMAIN handles : handles[q].open}}

Reclaim(ino, f, handles) == [i \in DOMAIN ino \cap Live(f, handles) |-> ino[i]]

NewIno(ino) == CHOOSE i \in 1..(Cardinality(DOMAIN ino) + 1) : i \notin DOMAIN ino

RECURSIVE BitAnd(_, _)
BitAnd(a, b) ==
    IF a = 0 \/ b = 0 THEN 0
    ELSE (a % 2) * (b % 2) + 2 * BitAnd(a \div 2, b \div 2)

\* File::create opens with mode 0o666, which the kernel masks with the umask.
create_mode(um) == (6 * 64 + 6 * 8 + 6) - BitAnd(6 * 64 + 6 * 8 + 6, um)

\* fs::create_dir_all: the directory and its missing ancestors; it fails when
\* a regular file is on the way.
RECURSIVE create_dir_all(_, _)
create_dir_all(f, dir) ==
    IF exists(f, dir) THEN [ok |-> is_dir(f, dir), fs |-> f]
    ELSE LET par == parent(dir)
         IN IF par.tag = "None" THEN [ok |-> FALSE, fs |-> f]
            ELSE LET up == create_dir_all(f, par.val)
                 IN IF up.ok THEN [ok |-> TRUE, fs |-> insert(up.fs, dir, DirNode)]
                    ELSE up

\* Whether open(path, O_WRONLY | O_CREAT | O_TRUNC) can succeed.
can_create(f, path) ==
    /\ parent(path).tag = "Some"
    /\ is_dir(f, parent(path).val)
    /\ ~is_dir(f, path)

\* fs::File::create: an existing file is truncated and keeps its mode, a new
\* one gets the masked creation mode.
File_create(f, ino, um, path) ==
    IF is_file(f, path)
    THEN [fs |-> f,
          inodes |-> [ino EXCEPT ![f[path].ino].content = <<>>],
          ino |-> f[path].ino]
    ELSE LET i == NewIno(ino)
         IN [fs |-> insert(f, path, FileNode(i)),
             inodes |-> insert(ino, i, [content |-> <<>>, mode |-> create_mode(um)]),
             ino |-> i]

NUL == "\\0"

\* write(2) at the handle's position
WriteAt(content, pos, bytes) ==
    LET padded == IF Len(content) < pos
                  THEN content \o [i \in 1..(pos - Len(content)) |-> NUL]
                  ELSE content
    IN SubSeq(padded, 1, pos) \o bytes
           \o SubSeq(padded, pos + Len(bytes) + 1, Len(padded))

\* Whether rename(from, to) can succeed.
can_rename(f, from, to) == is_file(f, from) /\ ~is_dir(f, to)

\* fs::rename: `to` now names the file `from` named; renaming a file onto
\* itself changes nothing.
rename(f, from, to) ==
    IF from = to THEN f ELSE insert(remove(f, from), to, f[from])

\* let content = content.trim_end_matches('\n').to_string();
RECURSIVE trim_end_matches(_, _)
trim_end_matches(s, c) ==
    IF s # <<>> /\ s[Len(s)] = c THEN trim_end_matches(SubSeq(s, 1, Len(s) - 1), c)
    ELSE s

-----------------------------------------------------------------------------
(* Inputs *)

N_k == <<"k">>

N_j == <<"j">>

N_z == <<"z">>

P_t == resolved_path(<<"t">>)

P_s == resolved_path(<<"s">>)

BindingParam(name, filename) == [name |-> name, value |-> [filename |-> filename]]

\* k: file "t"
D_k_t == BindingParam(<<Lit(N_k)>>, <<Lit(<<"t">>)>>)

\* j: file "t.tmp"
D_j_tmp == BindingParam(<<Lit(N_j)>>, <<Lit(<<"t", ".", "t", "m", "p">>)>>)

\* k: file "s/t"
D_k_st == BindingParam(<<Lit(N_k)>>, <<Lit(<<"s", "/", "t">>)>>)

\* {{k}}: file "{{k}}2"
D_var == BindingParam(<<Var(N_k)>>, <<Var(N_k), Lit(<<"2">>)>>)

\* y: file "{{k}}"
D_y_var == BindingParam(<<Lit(<<"y">>)>>, <<Var(N_k)>>)

DeclLists ==
    { <<D_k_t, D_j_tmp>>, <<D_k_t, D_var>>, <<D_var, D_k_t>>,
      <<D_k_t, D_j_tmp, D_k_st>>, <<D_y_var, D_k_t>> }

BindNames == {N_k, N_j, N_z}

BindValues == {String(<<"t", "\n">>), String(<<>>), Integer(7)}

InitContents == {<<"t", " ", "\n", "\n">>}

Umasks == {2 * 8 + 2, 7 * 8 + 7}

BaseFs == (Root :> DirNode) @@ (ContextRoot :> DirNode)

OneFile(c) == (1 :> [content |-> c, mode |-> 6 * 64 + 4 * 8 + 4])

\* The bound file and a temporary file an interrupted earlier run left.
LeftoverDisk ==
    [fs |-> (P_t :> FileNode(1)) @@ (temp_path_of(P_t) :> FileNode(2)) @@ BaseFs,
     inodes |-> OneFile(<<"t", "\n">>) @@ (2 :> [content |-> <<"7">>, mode |-> 6 * 64 + 4 * 8 + 4])]

InitDisks ==
    {[fs |-> BaseFs, inodes |-> EmptyMap]}
    \cup {[fs |-> (P_t :> FileNode(1)) @@ BaseFs, inodes |-> OneFile(c)] : c \in InitContents}
    \cup {[fs |-> (P_s :> FileNode(1)) @@ BaseFs, inodes |-> OneFile(<<>>)]}
    \cup {LeftoverDisk}

-----------------------------------------------------------------------------
(* The environment: a system call fails when the file system makes it fail,
   and may fail for a reason outside the model (permissions, disk full,
   another process) while the fault budget lasts. *)

EnvOutcomes(feasible) ==
    {o \in BOOLEAN : (o => feasible) /\ (~o => (~feasible \/ faults < MaxFaults))}

Fault(feasible, ok) == IF feasible /\ ~ok THEN faults + 1 ELSE faults

Pending == [kind |-> "Pending"]

NoCall == [op |-> "none"]

Init ==
    /\ \E d \in InitDisks : fs = d.fs /\ inodes = d.inodes
    /\ umask \in [Runners -> Umasks]
    /\ mappings = [r \in Runners |-> EmptyMap]
    /\ variables = [r \in Runners |-> EmptyMap]
    /\ pc = [r \in Runners |-> "idle"]
    /\ params = [r \in Runners |-> <<>>]
    /\ log = [r \in Runners |-> <<>>]
    /\ call = [r \in Runners |-> NoCall]
    /\ file = [r \in Runners |-> Closed]
    /\ result = [r \in Runners |-> [kind |-> "None"]]
    /\ last_ok = [r \in Runners |-> None]
    /\ ops = [r \in Runners |-> 0]
    /\ faults = 0

-----------------------------------------------------------------------------
(* BoundVariables::is_bound *)

is_bound(r, var_name) == var_name \in DOMAIN mappings[r]

-----------------------------------------------------------------------------
(* BoundVariables::process_bindings *)

\* Mutation of register: the mapping is not stored.
register_forgotten(m, var_name, file_path) == m

\* Mutation of register: a name that is bound keeps its first path.
register_keep_first(m, var_name, file_path) ==
    IF var_name \in DOMAIN m THEN m ELSE insert(m, var_name, file_path)

\* self.mappings.insert(var_name.clone(), file_path.to_string_lossy().to_string())
register(m, var_name, file_path) == insert(m, var_name, file_path)

\* Mutation of hydrate: a variable that has a value keeps it.
hydrate_if_absent(vs, var_name, content) ==
    IF var_name \in DOMAIN vs THEN vs
    ELSE insert(vs, var_name, [kind |-> "String", s |-> trim_end_matches(content, "\n")])

\* Ok(content) => variables.insert(var_name, Value::String(content trimmed))
hydrate(vs, var_name, content) ==
    insert(vs, var_name, String(trim_end_matches(content, "\n")))

\* Mutation of not_exists: a missing file yields an empty value.
not_exists_default(vs, var_name) ==
    [x \in DOMAIN vs \cup {var_name} |->
        IF x = var_name THEN [kind |-> "String", s |-> <<>>] ELSE vs[x]]

\* `if file_path.exists()` has no else: the variable set stays as it is.
not_exists(vs, var_name) == vs

\* Mutation of read_error: an unreadable file is skipped like a missing one.
read_error_skipped(file_path) == [tag |-> "None"]

\* Err(_e) => return Err(RunnerError::new(.., FileReadAccess { path }, false))
read_error(file_path) == Some(FileReadAccess(file_path))

\* Mutation of template_error: a declaration that does not render is skipped.
template_error_skipped == [tag |-> "None"]

\* template::eval_template(..)?: the error of the rendering is returned as it is.
template_error == Some(TemplateError)

\* One iteration of `for param in binding_params`: the registry and the
\* variable set after it, and the error it returns with, if any.
for_param(m, vs, f, ino, param, read_ok) ==
    LET var_name == eval_template(param.name, vs)
    IN IF ~var_name.ok
       THEN [mappings |-> m, variables |-> vs, err |-> template_error, readable |-> FALSE]
       ELSE
       LET filename == eval_template(param.value.filename, vs)
       IN IF ~filename.ok
          THEN [mappings |-> m, variables |-> vs, err |-> template_error, readable |-> FALSE]
          ELSE
          LET file_path == resolved_path(filename.s)
              m2 == register(m, var_name.s, file_path)
          IN IF ~exists(f, file_path)
             THEN [mappings |-> m2, variables |-> not_exists(vs, var_name.s),
                   err |-> None, readable |-> FALSE]
             ELSE IF is_file(f, file_path) /\ read_ok
             THEN [mappings |-> m2,
                   variables |-> hydrate(vs, var_name.s, ino[f[file_path].ino].content),
                   err |-> None, readable |-> TRUE]
             ELSE [mappings |-> m2, variables |-> vs,
                   err |-> read_error(file_path),
                   readable |-> is_file(f, file_path)]

process_bindings(r, binding_params) ==
    /\ pc[r] = "idle"
    /\ ops[r] < MaxOps
    /\ ops' = [ops EXCEPT ![r] = @ + 1]
    /\ call' = [call EXCEPT ![r] =
           [op |-> "process_bindings", binding_params |-> binding_params,
            mappings0 |-> mappings[r], variables0 |-> variables[r]]]
    /\ log' = [log EXCEPT ![r] = <<>>]
    /\ params' = [params EXCEPT ![r] = binding_params]
    /\ IF binding_params = <<>>
       THEN /\ result' = [result EXCEPT ![r] = Ok]
            /\ pc' = pc
       ELSE /\ result' = [result EXCEPT ![r] = Pending]
            /\ pc' = [pc EXCEPT ![r] = "for_param"]
    /\ UNCHANGED <<fs, inodes, umask, mappings, variables, file, last_ok, faults>>

process_bindings_for(r) ==
    /\ pc[r] = "for_param"
    /\ \E read_ok \in BOOLEAN :
        LET param == Head(params[r])
            st == for_param(mappings[r], variables[r], fs, inodes, param, read_ok)
        IN /\ read_ok \/ (st.readable /\ faults < MaxFaults)
           /\ faults' = IF read_ok THEN faults ELSE faults + 1
           /\ mappings' = [mappings EXCEPT ![r] = st.mappings]
           /\ variables' = [variables EXCEPT ![r] = st.variables]
           /\ params' = [params EXCEPT ![r] = Tail(@)]
           /\ log' = [log EXCEPT ![r] = Append(@,
                  [param |-> param, read_ok |-> read_ok, view |-> View(fs, inodes),
                   name |-> eval_template(param.name, variables[r]),
                   file |-> eval_template(param.value.filename, variables[r]),
                   mappings0 |-> mappings[r], variables0 |-> variables[r],
                   mappings1 |-> st.mappings, variables1 |-> st.variables,
                   err |-> st.err])]
           /\ IF st.err.tag = "Some"
              THEN /\ result' = [result EXCEPT ![r] = st.err.val]
                   /\ pc' = [pc EXCEPT ![r] = "idle"]
              ELSE IF Tail(params[r]) = <<>>
              THEN /\ result' = [result EXCEPT ![r] = Ok]
                   /\ pc' = [pc EXCEPT ![r] = "idle"]
              ELSE /\ result' = result
                   /\ pc' = pc
    /\ UNCHANGED <<fs, inodes, umask, call, file, last_ok, ops>>

-----------------------------------------------------------------------------
(* BoundVariables::bind_variable *)

\* Mutation of write_error: the error names the temporary file.
write_error_temp(file_path, temp_path) ==
    [kind |-> "FileWriteAccess", path |-> temp_path, flag |-> FALSE]

\* The error every map_err closure of bind_variable builds:
\* FileWriteAccess { path: PathBuf::from(file_path), .. }, false
write_error(file_path, temp_path) == FileWriteAccess(file_path)

\* Mutation of set_mode: 0o644.
set_mode_group_other == 6 * 64 + 4 * 8 + 4

\* perms.set_mode(0o600)
set_mode == 6 * 64

\* Mutation of Return: the error is recorded and the call goes on.
Return_continue(r, ret) ==
    /\ result' = [result EXCEPT ![r] = ret]
    /\ pc' = pc
    /\ file' = [file EXCEPT ![r] = Closed]

\* `?` on an Err: the handle is dropped and the call returns the error.
Return(r, ret) ==
    /\ result' = [result EXCEPT ![r] = ret]
    /\ pc' = [pc EXCEPT ![r] = "idle"]
    /\ file' = [file EXCEPT ![r] = Closed]

\* Mutation of mappings_after_get: the entry is taken out of the map.
mappings_after_take(m, var_name) == remove(m, var_name)

\* self.mappings.get(var_name) on `&self`: the lookup borrows the map, which
\* stays as it is.
mappings_after_get(m, var_name) == m

\* Lookup, value_str, and the parent directory.
bind_variable(r, var_name, value) ==
    /\ pc[r] = "idle"
    /\ ops[r] < MaxOps
    /\ ops' = [ops EXCEPT ![r] = @ + 1]
    /\ LET found == get(mappings[r], var_name)
       IN IF found.tag = "None"
          THEN /\ call' = [call EXCEPT ![r] =
                      [op |-> "bind_variable", var_name |-> var_name, value |-> value,
                       registered |-> FALSE, pre |-> View(fs, inodes),
                       mappings0 |-> mappings[r], variables0 |-> variables[r]]]
               /\ result' = [result EXCEPT ![r] = Ok]
               /\ UNCHANGED <<fs, inodes, pc, file, last_ok, faults>>
          ELSE
          LET file_path == found.val
              par == parent(file_path)
              missing == par.tag = "Some" /\ ~exists(fs, par.val)
              made == IF missing THEN create_dir_all(fs, par.val)
                      ELSE [ok |-> TRUE, fs |-> fs]
          IN /\ last_ok' = [last_ok EXCEPT ![r] =
                    IF @.tag = "Some" /\ @.val.path # file_path THEN None ELSE @]
             /\ \E ok \in (IF missing THEN EnvOutcomes(made.ok) ELSE {TRUE}) :
                 /\ faults' = Fault(made.ok, ok)
                 /\ call' = [call EXCEPT ![r] =
                        [op |-> "bind_variable", var_name |-> var_name, value |-> value,
                         registered |-> TRUE, pre |-> View(fs, inodes),
                         mappings0 |-> mappings[r], variables0 |-> variables[r],
                         file_path |-> file_path,
                         value_str |-> value_str_of(value),
                         temp_path |-> temp_path_of(file_path),
                         chmod |-> "none",
                         steps |-> IF missing
                                   THEN <<[step |-> "create_dir_all", ok |-> ok]>>
                                   ELSE <<>>]]
                 /\ IF ok
                    THEN /\ fs' = made.fs
                         /\ result' = [result EXCEPT ![r] = Pending]
                         /\ pc' = [pc EXCEPT ![r] = "File_create"]
                         /\ file' = file
                    ELSE /\ fs' = fs
                         /\ Return(r, write_error(file_path, temp_path_of(file_path)))
             /\ UNCHANGED inodes
    /\ mappings' = [mappings EXCEPT ![r] = mappings_after_get(@, var_name)]
    /\ UNCHANGED <<umask, variables, params, log>>

\* let mut file = fs::File::create(&temp_path).map_err(..)?;
bind_File_create(r) ==
    /\ pc[r] = "File_create"
    /\ LET c == call[r]
       IN \E ok \in EnvOutcomes(can_create(fs, c.temp_path)) :
           /\ faults' = Fault(can_create(fs, c.temp_path), ok)
           /\ call' = [call EXCEPT ![r].steps = Append(@, [step |-> "File_create", ok |-> ok])]
           /\ IF ok
              THEN LET made == File_create(fs, inodes, umask[r], c.temp_path)
                   IN /\ fs' = made.fs
                      /\ inodes' = made.inodes
                      /\ file' = [file EXCEPT ![r] = Handle(made.ino, 0)]
                      /\ pc' = [pc EXCEPT ![r] = "write_all"]
                      /\ result' = result
              ELSE /\ Return(r, write_error(c.file_path, c.temp_path))
                   /\ UNCHANGED <<fs, inodes>>
    /\ UNCHANGED <<umask, mappings, variables, params, log, last_ok, ops>>

\* file.write_all(value_str.as_bytes()).map_err(..)?: write(2) until every
\* byte is written; each call writes at least one byte or fails.
bind_write_all(r) ==
    /\ pc[r] = "write_all"
    /\ LET c == call[r]
           h == file[r]
           rest == SubSeq(c.value_str, h.pos + 1, Len(c.value_str))
       IN IF rest = <<>>
          THEN /\ pc' = [pc EXCEPT ![r] = "sync_all"]
               /\ call' = [call EXCEPT ![r].steps =
                      Append(@, [step |-> "write_all", ok |-> TRUE])]
               /\ UNCHANGED <<inodes, file, result, faults>>
          ELSE \E ok \in EnvOutcomes(TRUE) :
               /\ faults' = Fault(TRUE, ok)
               /\ IF ok
                  THEN \E n \in 1..Len(rest) :
                       /\ inodes' = [inodes EXCEPT ![h.ino].content =
                              WriteAt(@, h.pos, SubSeq(rest, 1, n))]
                       /\ file' = [file EXCEPT ![r] = Handle(h.ino, h.pos + n)]
                       /\ UNCHANGED <<pc, result, call>>
                  ELSE /\ Return(r, write_error(c.file_path, c.temp_path))
                       /\ call' = [call EXCEPT ![r].steps =
                              Append(@, [step |-> "write_all", ok |-> FALSE])]
                       /\ inodes' = Reclaim(inodes, fs, file')
    /\ UNCHANGED <<fs, umask, mappings, variables, params, log, last_ok, ops>>

\* file.sync_all().map_err(..)?; drop(file);
bind_sync_all(r) ==
    /\ pc[r] = "sync_all"
    /\ \E ok \in EnvOutcomes(TRUE) :
        /\ faults' = Fault(TRUE, ok)
        /\ file' = [file EXCEPT ![r] = Closed]
        /\ call' = [call EXCEPT ![r].steps = Append(@, [step |-> "sync_all", ok |-> ok])]
        /\ IF ok
           THEN /\ pc' = [pc EXCEPT ![r] = "rename"]
                /\ result' = result
           ELSE /\ pc' = [pc EXCEPT ![r] = "idle"]
                /\ result' = [result EXCEPT ![r] =
                       write_error(call[r].file_path, call[r].temp_path)]
    /\ inodes' = Reclaim(inodes, fs, file')
    /\ UNCHANGED <<fs, umask, mappings, variables, params, log, last_ok, ops>>

\* fs::rename(&temp_path, file_path).map_err(..)?;
bind_rename(r) ==
    /\ pc[r] = "rename"
    /\ LET c == call[r]
           can == can_rename(fs, c.temp_path, c.file_path)
       IN \E ok \in EnvOutcomes(can) :
           /\ faults' = Fault(can, ok)
           /\ call' = [call EXCEPT ![r].steps = Append(@, [step |-> "rename", ok |-> ok])]
           /\ IF ok
              THEN /\ fs' = rename(fs, c.temp_path, c.file_path)
                   /\ inodes' = Reclaim(inodes, fs', file)
                   /\ pc' = [pc EXCEPT ![r] = "metadata"]
                   /\ UNCHANGED <<result, file>>
              ELSE /\ Return(r, write_error(c.file_path, c.temp_path))
                   /\ UNCHANGED <<fs, inodes>>
    /\ UNCHANGED <<umask, mappings, variables, params, log, last_ok, ops>>

\* let mut perms = fs::metadata(file_path).unwrap().permissions();
\* an Err makes unwrap panic.
bind_metadata(r) ==
    /\ pc[r] = "metadata"
    /\ \E ok \in EnvOutcomes(exists(fs, call[r].file_path)) :
        /\ faults' = Fault(exists(fs, call[r].file_path), ok)
        /\ pc' = [pc EXCEPT ![r] = IF ok THEN "set_permissions" ELSE "panicked"]
        /\ call' = [call EXCEPT ![r].steps = Append(@, [step |-> "metadata", ok |-> ok])]
    /\ UNCHANGED <<fs, inodes, umask, mappings, variables, params, log, file,
                   result, last_ok, ops>>

\* perms.set_mode(0o600); let _ = fs::set_permissions(file_path, perms);
\* and the call returns Ok(()).
bind_set_permissions(r) ==
    /\ pc[r] = "set_permissions"
    /\ LET c == call[r]
       IN \E ok \in EnvOutcomes(is_file(fs, c.file_path)) :
           /\ faults' = Fault(is_file(fs, c.file_path), ok)
           /\ inodes' = IF ok THEN [inodes EXCEPT ![fs[c.file_path].ino].mode = set_mode]
                        ELSE inodes
           /\ call' = [call EXCEPT ![r].chmod = IF ok THEN "ok" ELSE "failed",
                                   ![r].steps =
                                       Append(@, [step |-> "set_permissions", ok |-> ok])]
           /\ last_ok' = [last_ok EXCEPT ![r] =
                  Some([path |-> c.file_path, s |-> c.value_str])]
           /\ Return(r, Ok)
    /\ UNCHANGED <<fs, umask, mappings, variables, params, log, ops>>

-----------------------------------------------------------------------------
(* The process *)

\* Abrupt termination between two steps of bind_variable: the kernel closes
\* the handle, the files stay as they are.
Crash(r) ==
    /\ pc[r] \notin {"idle", "for_param", "crashed", "panicked"}
    /\ faults < MaxFaults
    /\ faults' = faults + 1
    /\ pc' = [pc EXCEPT ![r] = "crashed"]
    /\ file' = [file EXCEPT ![r] = Closed]
    /\ inodes' = Reclaim(inodes, fs, file')
    /\ UNCHANGED <<fs, umask, mappings, variables, params, log, call, result,
                   last_ok, ops>>

\* A later run: a new process with BoundVariables::new() and an empty
\* variable set, on the files the earlier run left.
Restart(r) ==
    /\ pc[r] \in {"idle", "crashed", "panicked"}
    /\ ops[r] > 0
    /\ ops[r] < MaxOps
    /\ ops' = [ops EXCEPT ![r] = @ + 1]
    /\ mappings' = [mappings EXCEPT ![r] = EmptyMap]
    /\ variables' = [variables EXCEPT ![r] = EmptyMap]
    /\ pc' = [pc EXCEPT ![r] = "idle"]
    /\ params' = [params EXCEPT ![r] = <<>>]
    /\ log' = [log EXCEPT ![r] = <<>>]
    /\ call' = [call EXCEPT ![r] = NoCall]
    /\ result' = [result EXCEPT ![r] = [kind |-> "None"]]
    /\ last_ok' = [last_ok EXCEPT ![r] = None]
    /\ UNCHANGED <<fs, inodes, umask, file, faults>>

Next ==
    \E r \in Runners :
        \/ \E binding_params \in DeclLists : process_bindings(r, binding_params)
        \/ process_bindings_for(r)
        \/ \E var_name \in BindNames, value \in BindValues : bind_variable(r, var_name, value)
        \/ bind_File_create(r)
        \/ bind_write_all(r)
        \/ bind_sync_all(r)
        \/ bind_rename(r)
        \/ bind_metadata(r)
        \/ bind_set_permissions(r)
        \/ Crash(r)
        \/ Restart(r)

Spec == Init /\ [][Next]_vars

-----------------------------------------------------------------------------
(* Two independent runner processes bound to the same file *)

MaxConcBinds == 1

Writers == {1, 2}

\* The value each process binds.
ConcValue(r) == IF r = 1 THEN String(<<"t", "\n">>) ELSE Integer(7)

\* Each process has run process_bindings over the declaration k: file "t".
InitConc ==
    /\ \E d \in {x \in InitDisks : ~exists(x.fs, P_s) /\ ~exists(x.fs, temp_path_of(P_t))} :
        LET st == for_param(EmptyMap, EmptyMap, d.fs, d.inodes, D_k_t, TRUE)
        IN /\ fs = d.fs
           /\ inodes = d.inodes
           /\ mappings = [r \in Writers |-> st.mappings]
           /\ variables = [r \in Writers |-> st.variables]
    /\ umask \in [Writers -> {2 * 8 + 2}]
    /\ pc = [r \in Writers |-> "idle"]
    /\ params = [r \in Writers |-> <<>>]
    /\ log = [r \in Writers |-> <<>>]
    /\ call = [r \in Writers |-> NoCall]
    /\ file = [r \in Writers |-> Closed]
    /\ result = [r \in Writers |-> [kind |-> "None"]]
    /\ last_ok = [r \in Writers |-> None]
    /\ ops = [r \in Writers |-> 0]
    /\ faults = 0

NextConc ==
    \E r \in Writers :
        \/ ops[r] < MaxConcBinds /\ bind_variable(r, N_k, ConcValue(r))
        \/ bind_File_create(r)
        \/ bind_write_all(r)
        \/ bind_sync_all(r)
        \/ bind_rename(r)
        \/ bind_metadata(r)
        \/ bind_set_permissions(r)

SpecConc == InitConc /\ [][NextConc]_vars

-----------------------------------------------------------------------------
(* Properties *)

\* What a reader finds at path p of a view: nothing, a directory, or a file's
\* whole content.
StateAt(view, p) ==
    IF p \notin DOMAIN view THEN None
    ELSE IF view[p].kind = "dir" THEN [tag |-> "Dir"]
    ELSE Some(view[p].content)

ModeAt(view, p) == IF view[p].kind = "file" THEN view[p].mode ELSE 0

\* The same of the files as they are now.
Now(p) ==
    IF p \notin DOMAIN fs THEN None
    ELSE IF fs[p].kind = "dir" THEN [tag |-> "Dir"]
    ELSE Some(inodes[fs[p].ino].content)

ModeNow(p) == IF fs[p].kind = "file" THEN inodes[fs[p].ino].mode ELSE 0

\* The canonical string form of a value: a string as it is, any other value
\* in its display form.
CanonicalForm(value) == IF value.kind = "String" THEN value.s ELSE to_string(value)

\* The runner's current or last operation is bind_variable on a name that was
\* registered when the call began.
BindOnRegistered(r) ==
    /\ call[r].op = "bind_variable"
    /\ call[r].var_name \in DOMAIN call[r].mappings0

BindOnUnregistered(r) ==
    /\ call[r].op = "bind_variable"
    /\ call[r].var_name \notin DOMAIN call[r].mappings0

Target(r) == call[r].mappings0[call[r].var_name]

IsProperPrefix(a, b) == Len(a) < Len(b) /\ a = SubSeq(b, 1, Len(a))

\* C1: in every state during and after a bind_variable call on a registered
\* name, crashed and failed calls included, the target path holds what it held
\* when the call began (or is still absent) or the complete canonical string of
\* the new value.
C1_TargetNeverPartial ==
    \A r \in Runners :
        BindOnRegistered(r) =>
            LET now == Now(Target(r))
                before == StateAt(call[r].pre, Target(r))
            IN now = before \/ now = Some(CanonicalForm(call[r].value))

\* C1 witness: the process died while the temporary file held a proper,
\* non-empty prefix of the new value, and the target still holds its old
\* content.
C1_Witness ==
    \E r \in Runners :
        /\ BindOnRegistered(r)
        /\ pc[r] = "crashed"
        /\ LET tmp == Now(temp_path_of(Target(r)))
               now == Now(Target(r))
           IN /\ tmp.tag = "Some"
              /\ tmp.val # <<>>
              /\ IsProperPrefix(tmp.val, CanonicalForm(call[r].value))
              /\ now.tag = "Some"
              /\ now = StateAt(call[r].pre, Target(r))
              /\ now.val # CanonicalForm(call[r].value)

C3_UnregisteredIsNoOp ==
    \A r \in Runners :
        BindOnUnregistered(r) =>
            /\ pc[r] = "idle"
            /\ result[r] = Ok
            /\ View(fs, inodes) = call[r].pre
            /\ mappings[r] = call[r].mappings0
            /\ variables[r] = call[r].variables0

\* C3 witness: the registry is not empty, the files exist, and a bind on an
\* unregistered name has returned.
C3_Witness ==
    \E r \in Runners :
        /\ BindOnUnregistered(r)
        /\ mappings[r] # EmptyMap
        /\ result[r] = Ok
        /\ call[r].var_name = N_z
        /\ call[r].value = Integer(7)

\* What a declaration of the log rendered to, in the variable set it met.
EntryName(e) == e.name

EntryFile(e) == e.file

EntryPath(e) == resolved_path(EntryFile(e).s)

Renders(e) == EntryName(e).ok /\ EntryFile(e).ok

FileAbsent(e) == Renders(e) /\ StateAt(e.view, EntryPath(e)) = None

\* The file was there and was read.
FileRead(e) ==
    /\ Renders(e)
    /\ StateAt(e.view, EntryPath(e)).tag = "Some"
    /\ e.read_ok

\* The file (or a directory) was there and could not be read.
ReadFailed(e) ==
    /\ Renders(e)
    /\ StateAt(e.view, EntryPath(e)) # None
    /\ ~FileRead(e)

\* C4: for every declaration process_bindings has processed (its name and
\* file name rendered), the rendered name is mapped to the resolved path right
\* after the declaration and is_bound of it is true from then on, whether the
\* file is missing, read or unreadable.
C4_DeclaredIsBound ==
    \A r \in Runners : \A i \in DOMAIN log[r] :
        LET e == log[r][i]
        IN Renders(e) =>
            /\ EntryName(e).s \in DOMAIN e.mappings1
            /\ e.mappings1[EntryName(e).s] = EntryPath(e)
            /\ is_bound(r, EntryName(e).s)

\* C4 witness: process_bindings has returned Ok, a declaration's file did not
\* exist, and its name is bound.
C4_Witness ==
    \E r \in Runners : \E i \in DOMAIN log[r] :
        /\ call[r].op = "process_bindings"
        /\ result[r] = Ok
        /\ FileAbsent(log[r][i])
        /\ is_bound(r, EntryName(log[r][i]).s)

StripOneTerminator(s) ==
    IF s # <<>> /\ s[Len(s)] = "\n" THEN SubSeq(s, 1, Len(s) - 1) ELSE s

\* C5: when the file of a declaration exists and is read, the variable is set
\* to the file's content with exactly one trailing line terminator removed, if
\* there is one, and every other character kept.
C5_ExactlyOneTerminatorStripped ==
    \A r \in Runners : \A i \in DOMAIN log[r] :
        LET e == log[r][i]
        IN FileRead(e) =>
            /\ EntryName(e).s \in DOMAIN e.variables1
            /\ e.variables1[EntryName(e).s] =
                   String(StripOneTerminator(StateAt(e.view, EntryPath(e)).val))

\* C6: when no file exists at the resolved path of a declaration, the
\* declaration raises no error, the variable set is exactly as before it, and
\* the mapping is registered.
C6_MissingFileLeavesVariables ==
    \A r \in Runners : \A i \in DOMAIN log[r] :
        LET e == log[r][i]
        IN FileAbsent(e) =>
            /\ e.err = None
            /\ e.variables1 = e.variables0
            /\ e.mappings1 = insert(e.mappings0, EntryName(e).s, EntryPath(e))

\* C6 witness: a declaration whose file is missing re-declares a name that
\* already has a value, and the value is kept.
C6_Witness ==
    \E r \in Runners : \E i \in DOMAIN log[r] :
        LET e == log[r][i]
        IN /\ FileAbsent(e)
           /\ EntryName(e).s \in DOMAIN e.variables0
           /\ EntryName(e).s \in DOMAIN variables[r]
           /\ variables[r][EntryName(e).s] = e.variables0[EntryName(e).s]
           /\ result[r] = Ok

\* C9: a declaration whose file exists and cannot be read is the last one
\* processed: process_bindings returns the read-access error with the
\* resolved path and a false flag, the declarations after it are left
\* unprocessed, and the registry and the variable set are those the earlier
\* declarations made plus the mapping of the failing one.
C9_ReadErrorStops ==
    \A r \in Runners : \A i \in DOMAIN log[r] :
        LET e == log[r][i]
            err == [kind |-> "FileReadAccess", path |-> EntryPath(e), flag |-> FALSE]
        IN ReadFailed(e) =>
            /\ i = Len(log[r])
            /\ e.err = Some(err)
            /\ e.mappings1 = insert(e.mappings0, EntryName(e).s, EntryPath(e))
            /\ e.variables1 = e.variables0
            /\ call[r].op = "process_bindings" =>
                /\ pc[r] = "idle"
                /\ result[r] = err
                /\ mappings[r] = e.mappings1
                /\ variables[r] = e.variables1
                /\ params[r] = SubSeq(call[r].binding_params, i + 1,
                                      Len(call[r].binding_params))

\* C9 witness: the second of three declarations could not be read; the first
\* one's value is in the variable set, the third is unprocessed and its
\* mapping was not made.
C9_Witness ==
    \E r \in Runners :
        /\ call[r].op = "process_bindings"
        /\ Len(log[r]) = 2
        /\ ReadFailed(log[r][2])
        /\ FileRead(log[r][1])
        /\ params[r] = <<D_k_st>>
        /\ variables[r] # call[r].variables0
        /\ mappings[r][N_k] = P_t
        /\ is_bound(r, N_j)
        /\ result[r].kind = "FileReadAccess"

\* The permission bits of group and other.
GroupOther(mode) == mode % 64

\* bind_variable on a registered name has returned Ok.
BindSucceeded(r) == pc[r] = "idle" /\ BindOnRegistered(r) /\ result[r] = Ok

C8_WriteErrorLeavesTarget ==
    \A r \in Runners :
        (pc[r] = "idle" /\ BindOnRegistered(r) /\ result[r] # Ok) =>
            /\ result[r] = [kind |-> "FileWriteAccess", path |-> Target(r), flag |-> FALSE]
            /\ Now(Target(r)) = StateAt(call[r].pre, Target(r))
            /\ Target(r) \in DOMAIN call[r].pre =>
                   ModeNow(Target(r)) = ModeAt(call[r].pre, Target(r))

\* C8 witness: write_all failed after part of the value was written to the
\* temporary file; the call returned the error and the target holds its old
\* content.
C8_Witness ==
    \E r \in Runners :
        /\ pc[r] = "idle"
        /\ BindOnRegistered(r)
        /\ result[r].kind = "FileWriteAccess"
        /\ LET tmp == Now(temp_path_of(Target(r)))
               now == Now(Target(r))
           IN /\ tmp.tag = "Some"
              /\ tmp.val # <<>>
              /\ IsProperPrefix(tmp.val, CanonicalForm(call[r].value))
              /\ now.tag = "Some"
              /\ now.val # CanonicalForm(call[r].value)

\* C10: once the rename has succeeded, bind_variable neither aborts nor
\* returns an error, whether fs::metadata or fs::set_permissions succeeds or
\* fails.
C10_PermissionFailureNeverSurfaces ==
    \A r \in Runners :
        /\ pc[r] # "panicked"
        /\ (pc[r] = "idle" /\ BindOnRegistered(r) /\ call[r].chmod # "none") =>
               result[r] = Ok

\* C11: while two runner processes bind their values to the same mapped path
\* with their steps interleaved, the target path holds what it held before
\* either call or the complete canonical string of one of the two values:
\* never an empty, truncated or mixed content.
C11_ConcurrentReadsSeeWholeValues ==
    \/ \A r \in Writers : call[r].op = "none"
    \/ Now(P_t) \in
          {StateAt(call[r].pre, P_t) : r \in {w \in Writers : call[w].op = "bind_variable"}}
          \cup {Some(CanonicalForm(ConcValue(r))) : r \in Writers}

\* C12: when bind_variable on a registered name has returned and the parent
\* of the mapped path is not a directory (it could not be created, or a regular
\* file has that name), the call returned the write-access error with the
\* mapped path and a false flag, and neither the target nor the temporary file
\* exists.
C12_UnusableParentIsWriteError ==
    \A r \in Runners :
        (/\ pc[r] = "idle"
         /\ BindOnRegistered(r)
         /\ parent(Target(r)).tag = "Some"
         /\ ~is_dir(fs, parent(Target(r)).val)) =>
            /\ result[r] = [kind |-> "FileWriteAccess", path |-> Target(r), flag |-> FALSE]
            /\ ~exists(fs, Target(r))
            /\ ~exists(fs, temp_path_of(Target(r)))

\* C12 witness: a regular file has the name of the parent directory, and the
\* bind returned the write-access error.
C12_Witness ==
    \E r \in Runners :
        /\ pc[r] = "idle"
        /\ BindOnRegistered(r)
        /\ Target(r) = resolved_path(<<"s", "/", "t">>)
        /\ is_file(fs, P_s)
        /\ result[r].kind = "FileWriteAccess"

\* The last step a bind_variable call on a registered name has taken.
LastStep(r) == call[r].steps[Len(call[r].steps)]

\* C13: after bind_variable on a registered name has returned, with success
\* or with an error at the write, the flush or the rename, no file exists at
\* the temporary path.
C13_NoTemporaryAfterReturn ==
    \A r \in Runners :
        (/\ pc[r] = "idle"
         /\ BindOnRegistered(r)
         /\ call[r].steps # <<>>
         /\ \/ result[r] = Ok
            \/ /\ LastStep(r).step \in {"write_all", "sync_all", "rename"}
               /\ ~LastStep(r).ok) =>
            ~exists(fs, call[r].temp_path)

\* The steps of bind_variable on a registered name, in the order of the code;
\* the first is skipped when the parent directory exists.
ProtocolOrder ==
    <<"create_dir_all", "File_create", "write_all", "sync_all", "rename",
      "metadata", "set_permissions">>

StepNames(r) == [i \in 1..Len(call[r].steps) |-> call[r].steps[i].step]

IsPrefix(a, b) == Len(a) <= Len(b) /\ a = SubSeq(b, 1, Len(a))

\* The steps a call has taken are an initial part of the protocol, and every
\* step but the last one succeeded.
StepsInOrder(r) ==
    /\ \/ IsPrefix(StepNames(r), ProtocolOrder)
       \/ /\ IsPrefix(StepNames(r), Tail(ProtocolOrder))
          /\ StateAt(call[r].pre, parent(Target(r)).val) # None
    /\ \A i \in 1..(Len(call[r].steps) - 1) : call[r].steps[i].ok

\* The call has taken the step, and the step succeeded.
Succeeded(r, step) ==
    \E i \in 1..Len(call[r].steps) : call[r].steps[i] = [step |-> step, ok |-> TRUE]

\* C14: in every call of bind_variable on a registered name the steps are
\* taken in the order directory creation (when the parent is missing),
\* temporary-file creation, write of all bytes, flush, rename, permission
\* change, and a failed step is the last one; the target is another file than
\* before the call only when the rename of this call has succeeded, and the
\* permission change has been attempted only then.
C14_WriteProtocolOrder ==
    \A r \in Runners :
        BindOnRegistered(r) =>
            /\ StepsInOrder(r)
            /\ Now(Target(r)) # StateAt(call[r].pre, Target(r)) => Succeeded(r, "rename")
            /\ call[r].chmod # "none" => Succeeded(r, "rename")

\* C14 witness: a call that had to create the parent directory has gone
\* through all seven steps and returned success.
C14_Witness ==
    \E r \in Runners :
        /\ pc[r] = "idle"
        /\ BindOnRegistered(r)
        /\ result[r] = Ok
        /\ StepNames(r) = ProtocolOrder

\* The log entry re-declares a name that was bound to another path.
Redeclares(e) ==
    /\ Renders(e)
    /\ EntryName(e).s \in DOMAIN e.mappings0
    /\ e.mappings0[EntryName(e).s] # EntryPath(e)

\* The log entries that declared the name.
DeclarationsOf(r, var_name) ==
    {i \in 1..Len(log[r]) : Renders(log[r][i]) /\ EntryName(log[r][i]).s = var_name}

Max(S) == CHOOSE x \in S : \A y \in S : y <= x

\* C15: during and after a process_bindings call, a declaration of a name
\* that was bound to another path has replaced that one mapping and no other,
\* the registry maps every declared name to the path of its last declaration,
\* and the file at the old path is as it was when the name was re-declared;
\* and a later bind_variable for the name has the last declared path as its
\* target and leaves every path the name was declared with before as it was
\* when the call began.
C15_RedeclarationOverwritesMapping ==
    \A r \in Runners :
        /\ call[r].op = "process_bindings" =>
            /\ \A i \in 1..Len(log[r]) :
                LET e == log[r][i]
                    old == e.mappings0[EntryName(e).s]
                IN Redeclares(e) =>
                    /\ DOMAIN e.mappings1 = DOMAIN e.mappings0
                    /\ \A x \in DOMAIN e.mappings0 :
                           e.mappings1[x] = IF x = EntryName(e).s THEN EntryPath(e)
                                            ELSE e.mappings0[x]
                    /\ Now(old) = StateAt(e.view, old)
            /\ \A var_name \in DOMAIN mappings[r] :
                LET declared == DeclarationsOf(r, var_name)
                IN declared # {} =>
                    mappings[r][var_name] = EntryPath(log[r][Max(declared)])
        /\ BindOnRegistered(r) =>
            LET declared == DeclarationsOf(r, call[r].var_name)
            IN declared # {} =>
                /\ Target(r) = EntryPath(log[r][Max(declared)])
                /\ \A i \in declared :
                       LET old == EntryPath(log[r][i])
                       IN old # Target(r) => Now(old) = StateAt(call[r].pre, old)

\* C15 witness: the name was declared with /c/t and then with /c/s/t, a bind
\* for it has succeeded on /c/s/t, and the file at /c/t is still there.
C15_Witness ==
    \E r \in Runners :
        /\ BindSucceeded(r)
        /\ \E i \in DeclarationsOf(r, call[r].var_name) :
               Redeclares(log[r][i]) /\ log[r][i].mappings0[call[r].var_name] = P_t
        /\ Target(r) = resolved_path(<<"s", "/", "t">>)
        /\ Now(P_t).tag = "Some"
        /\ Now(Target(r)) = Some(CanonicalForm(call[r].value))

\* C16: during and after every bind_variable call, on a registered name or
\* not, returned with success or with an error at any step, panicked or
\* interrupted, the registry and the variable store are what they were when
\* the call began.
C16_BindLeavesRegistryAndVariables ==
    \A r \in Runners :
        call[r].op = "bind_variable" =>
            /\ mappings[r] = call[r].mappings0
            /\ variables[r] = call[r].variables0

\* C16 witness: a bind_variable call on a registered name has failed while two
\* names are bound and a variable is hydrated.
C16_Witness ==
    \E r \in Runners :
        /\ pc[r] = "idle"
        /\ BindOnRegistered(r)
        /\ result[r].kind = "FileWriteAccess"
        /\ Cardinality(DOMAIN mappings[r]) >= 2
        /\ DOMAIN variables[r] # {}

\* The text is the content without line terminators at its end.
IsHydratedFrom(s, content) ==
    /\ IsPrefix(s, content)
    /\ \A i \in (Len(s) + 1)..Len(content) : content[i] = "\n"

\* The log entries that declared the name and read its file.
ReadsOf(r, var_name) == {i \in DeclarationsOf(r, var_name) : FileRead(log[r][i])}

ContentRead(e) == StateAt(e.view, EntryPath(e)).val

\* C17: during and after a process_bindings call, a declaration whose file
\* exists and is read has set the variable of its name to a string hydrated
\* from the file's content, whatever value the variable had, and left the
\* other variables; the declarations are handled in input order, each one
\* rendered with the variables and registered in the registry the one before
\* it left; and a variable whose name was declared several times holds the
\* value of the last declaration that read a file.
C17_HydrationInInputOrder ==
    \A r \in Runners :
        call[r].op = "process_bindings" =>
            /\ \A i \in 1..Len(log[r]) :
                LET e == log[r][i]
                IN /\ e.param = call[r].binding_params[i]
                   /\ i = 1 => /\ e.variables0 = call[r].variables0
                               /\ e.mappings0 = call[r].mappings0
                   /\ i > 1 => /\ e.variables0 = log[r][i - 1].variables1
                               /\ e.mappings0 = log[r][i - 1].mappings1
                               /\ log[r][i - 1].err = None
                   /\ e.name = eval_template(e.param.name, e.variables0)
                   /\ e.file = eval_template(e.param.value.filename, e.variables0)
                   /\ Renders(e) => EntryName(e).s \in DOMAIN e.mappings1
                   /\ FileRead(e) =>
                          /\ DOMAIN e.variables1 = DOMAIN e.variables0 \cup {EntryName(e).s}
                          /\ e.variables1[EntryName(e).s].kind = "String"
                          /\ IsHydratedFrom(e.variables1[EntryName(e).s].s, ContentRead(e))
                          /\ \A x \in DOMAIN e.variables0 \ {EntryName(e).s} :
                                 e.variables1[x] = e.variables0[x]
            /\ log[r] # <<>> => variables[r] = log[r][Len(log[r])].variables1
            /\ \A var_name \in DOMAIN variables[r] :
                LET reads == ReadsOf(r, var_name)
                IN reads # {} =>
                    /\ variables[r][var_name].kind = "String"
                    /\ IsHydratedFrom(variables[r][var_name].s,
                                      ContentRead(log[r][Max(reads)]))

\* C17 witness: one call read two files with different contents for one name,
\* and the variable holds the text of the second.
C17_Witness ==
    \E r \in Runners :
        /\ pc[r] = "idle"
        /\ call[r].op = "process_bindings"
        /\ result[r] = Ok
        /\ \E var_name \in DOMAIN variables[r] :
            \E i, j \in ReadsOf(r, var_name) :
                /\ i < j
                /\ j = Max(ReadsOf(r, var_name))
                /\ ~IsHydratedFrom(variables[r][var_name].s, ContentRead(log[r][i]))
                /\ IsHydratedFrom(variables[r][var_name].s, ContentRead(log[r][j]))

\* The template names a variable that has no value.
Undefined(template, vs) ==
    \E i \in 1..Len(template) :
        template[i].elem = "var" /\ template[i].name \notin DOMAIN vs

\* The name or the file name of the declaration does not render.
RenderFails(e) ==
    \/ Undefined(e.param.name, e.variables0)
    \/ Undefined(e.param.value.filename, e.variables0)

\* C18: a declaration whose name or file name does not render ends the call
\* with the rendering error: it is the last declaration handled, it adds no
\* mapping and no variable, and the registry and the variable store are left
\* as the declarations before it made them.
C18_RenderFailureStops ==
    \A r \in Runners :
        \A i \in 1..Len(log[r]) :
            LET e == log[r][i]
            IN RenderFails(e) =>
                /\ e.err = Some(TemplateError)
                /\ e.mappings1 = e.mappings0
                /\ e.variables1 = e.variables0
                /\ i = Len(log[r])
                /\ pc[r] # "for_param"
                /\ mappings[r] = e.mappings0
                /\ variables[r] = e.variables0
                /\ call[r].op = "process_bindings" => result[r] = TemplateError

\* C18 witness: the name of a declaration rendered and its file name did not;
\* a declaration after it was not handled, and a name bound by an earlier call
\* is still bound.
C18_Witness ==
    \E r \in Runners :
        /\ pc[r] = "idle"
        /\ call[r].op = "process_bindings"
        /\ log[r] # <<>>
        /\ LET e == log[r][Len(log[r])]
           IN /\ EntryName(e).ok
              /\ ~EntryFile(e).ok
              /\ ~is_bound(r, EntryName(e).s)
        /\ Len(log[r]) < Len(call[r].binding_params)
        /\ is_bound(r, N_k)
        /\ result[r] = TemplateError

\* C19: when process_bindings reads, for a declaration, the file that the last
\* successful bind_variable call wrote, the variable of the declaration is the
\* string equal to the canonical form of the value that was bound.
C19_PersistThenHydrateRoundTrip ==
    \A r \in Runners :
        (call[r].op = "process_bindings" /\ last_ok[r].tag = "Some") =>
            \A i \in 1..Len(log[r]) :
                LET e == log[r][i]
                IN (/\ FileRead(e)
                    /\ EntryPath(e) = last_ok[r].val.path
                    /\ ContentRead(e) = last_ok[r].val.s) =>
                        e.variables1[EntryName(e).s] = String(last_ok[r].val.s)

\* C20: during and after a bind_variable call on a registered name, the file
\* mapped to every other registered name with a different path is what it was
\* when the call began: absent if it was absent, and with the same content
\* otherwise.
C20_OtherMappedFilesUntouched ==
    \A r \in Runners :
        BindOnRegistered(r) =>
            \A other \in DOMAIN call[r].mappings0 \ {call[r].var_name} :
                LET path == call[r].mappings0[other]
                IN path # Target(r) => Now(path) = StateAt(call[r].pre, path)

====
